---- MODULE Spec2Model ----
(***************************************************************************)
(* A model of fill_array_with_rng.cpp: the generic fillRnd, which fills a  *)
(* numeric container with pseudo-random values from a seeded generator,    *)
(* the two operator<< overloads that render a container, and the template  *)
(* capability restriction that guards fillRnd.                             *)
(*                                                                         *)
(* The Mersenne Twister (624 words of 32 bits) is represented by a         *)
(* generator of the same shape and a small word size: a state initialised  *)
(* from the seed alone, a deterministic transition taken at every engine   *)
(* call, and the output read from the state.  Floating-point values are    *)
(* represented on an integer grid, with the rounding to the nearest        *)
(* representable value that the hardware performs.                         *)
(***************************************************************************)
EXTENDS Integers, Sequences, FiniteSets, TLC

(* ------------------------------ bounds -------------------------------- *)

\* Longest container the callers build.
MaxLen == 2

\* Largest value passed as min or max; the smallest is MinVal.
MaxVal == 1

\* Word size of the generator, in bits.
EngineBits == 3

MinVal == 0 - 1

Vals == MinVal..MaxVal

\* The calls of fillRnd that may be in progress at the same time, each on
\* its own container.
Calls == {1, 2}

\* Element kinds: value_type is an integral or a floating-point type.
Kinds == {"int", "real"}

\* What a caller puts in a container before it passes it to fillRnd.
InitVals == {0, MaxVal}

\* The seed argument of a call: an int, or left out.
Omitted == << >>

SeedArgs == {Omitted, <<42>>, <<1337>>}

\* No generator exists: before a call and after its return.
NoGen == 0 - 1

NoArgs == [kind |-> "none"]

\* The two container templates operator<< is overloaded for.
Shapes == {"vector", "array"}

(* ---------------------------- the generator --------------------------- *)

EngineMod == 2 ^ EngineBits

\* std::mt19937 generator(seed): the int seed is converted to the unsigned
\* word and alone determines the initial state.
SeedState(seed) == seed % EngineMod

\* One call of generator(): the state advances deterministically.
EngineNext(g) == (5 * g + 3) % EngineMod

\* int seed = 1337
DefaultSeed == 1337

EffectiveSeedZero(seedArg) == IF seedArg = Omitted THEN 0 ELSE seedArg[1]

EffectiveSeed(seedArg) ==
    IF seedArg = Omitted THEN DefaultSeed ELSE seedArg[1]

(* -------------------------- the distributions ------------------------- *)

\* std::uniform_int_distribution<value_type> dis(min, max); dis(generator):
\* the engine's range is scaled down to the max - min + 1 values of
\* [min, max]; engine outputs beyond the last whole multiple are rejected and
\* the engine is called again.
RECURSIVE UniformInt(_, _, _)
UniformInt(a, b, g) ==
    LET uerange == (b - a) + 1
        scaling == (EngineMod - 1) \div uerange
        past    == uerange * scaling
        g1      == EngineNext(g)
    IN  IF g1 >= past
        THEN UniformInt(a, b, g1)
        ELSE [val |-> (g1 \div scaling) + a, gen |-> g1]

\* std::uniform_real_distribution<value_type> dis(min, max); dis(generator):
\* one engine output is mapped to u in [0, 1) and the result is
\* u * (max - min) + min, rounded to the nearest representable value.
UniformReal(a, b, g) ==
    LET g1 == EngineNext(g)
    IN  [val |-> a + ((2 * (b - a) * g1 + EngineMod) \div (2 * EngineMod)),
         gen |-> g1]

disTypeMaxExclusive(k, a, b, g) ==
    IF k = "int" THEN UniformInt(a, b + 1, g) ELSE UniformReal(a, b + 1, g)

\* disType dis(min, max); dis(generator), with disType the std::conditional
\* on std::is_integral<value_type>.
disType(k, a, b, g) ==
    IF k = "int" THEN UniformInt(a, b, g) ELSE UniformReal(a, b, g)

(* ------------------------------- state -------------------------------- *)

VARIABLES
    arr,        \* arr[c]: the container call slot c works on
    kind,       \* kind[c]: the kind of its value_type
    shape,      \* shape[c]: its template, std::vector or std::array
    pc,         \* pc[c]: "idle" (no call yet), "running", "done"
    args,       \* args[c]: the arguments of the call in progress or returned
    generator,  \* generator[c]: the state of the generator local to call c
    it,         \* it[c]: the position of std::generate's iterator, from 1
    written,    \* written[c]: the positions assigned during the call
    drawn,      \* drawn[c]: the values dis(generator) returned, in order
    seedings,   \* seedings[c]: generators constructed during the call
    out,        \* the characters the latest operator<< call put on its stream
    T,          \* the type fillRnd's template parameter T is deduced as
    stage       \* how far the compiler is with the call fillRnd(T&, ...)

fillVars == <<arr, kind, pc, args, generator, it, written, drawn, seedings>>

vars == <<arr, kind, shape, pc, args, generator, it, written, drawn,
          seedings, out, T, stage>>

(* ------------------------------ fillRnd ------------------------------- *)

generatorShared(c) == 1

\* The generator is a local variable of the call.
generatorOf(c) == c

StoreAtAppend(s, i, v) == Append(s, v)

StoreAtAccumulate(s, i, v) == [s EXCEPT ![i] = @ + v]

\* *first = g()
StoreAt(s, i, v) == [s EXCEPT ![i] = v]

LoopStopsEarly(i, n) == i < n

LoopRunsOnce(i, n) == i <= n \/ i = 1

\* first != last, with first at position i of n elements
LoopContinues(i, n) == i <= n

PositionFromEnd(i, n) == (n + 1) - i

\* The element std::generate's iterator designates: arr.begin() onwards.
Position(i, n) == i

\* The caller builds a container: std::vector<int> v(10), std::array<..> a.
NewContainer(c) ==
    /\ pc[c] \in {"idle", "done"}
    /\ \E k \in Kinds, n \in 0..MaxLen, v \in InitVals :
          /\ kind' = [kind EXCEPT ![c] = k]
          /\ arr' = [arr EXCEPT ![c] = [i \in 1..n |-> v]]
    /\ pc' = [pc EXCEPT ![c] = "idle"]
    /\ args' = [args EXCEPT ![c] = NoArgs]
    /\ it' = [it EXCEPT ![c] = 0]
    /\ written' = [written EXCEPT ![c] = {}]
    /\ drawn' = [drawn EXCEPT ![c] = << >>]
    /\ seedings' = [seedings EXCEPT ![c] = 0]
    /\ UNCHANGED <<generator, shape, out, T, stage>>

\* fillRnd(arr, min, max, seed): entry, the generator and the distribution
\* are constructed, std::generate starts at arr.begin().
Call(c) ==
    /\ pc[c] = "idle"
    /\ \E lo \in Vals, hi \in Vals, s \in SeedArgs :
          /\ lo <= hi
          /\ args' = [args EXCEPT ![c] =
                        [kind |-> kind[c], min |-> lo, max |-> hi,
                         seedArg |-> s, seed |-> EffectiveSeed(s)]]
          /\ generator' = [generator EXCEPT ![generatorOf(c)] =
                              SeedState(EffectiveSeed(s))]
    /\ pc' = [pc EXCEPT ![c] = "running"]
    /\ it' = [it EXCEPT ![c] = 1]
    /\ written' = [written EXCEPT ![c] = {}]
    /\ drawn' = [drawn EXCEPT ![c] = << >>]
    /\ seedings' = [seedings EXCEPT ![c] = 1]
    /\ UNCHANGED <<arr, kind, shape, out, T, stage>>

\* One iteration of std::generate: *first = dis(generator); ++first.
Generate(c) ==
    /\ pc[c] = "running"
    /\ LoopContinues(it[c], Len(arr[c]))
    /\ LET d == disType(kind[c], args[c].min, args[c].max,
                        generator[generatorOf(c)])
           p == Position(it[c], Len(arr[c]))
       IN  /\ arr' = [arr EXCEPT ![c] = StoreAt(@, p, d.val)]
           /\ generator' = [generator EXCEPT ![generatorOf(c)] = d.gen]
           /\ written' = [written EXCEPT ![c] = @ \cup {p}]
           /\ drawn' = [drawn EXCEPT ![c] = Append(@, d.val)]
    /\ it' = [it EXCEPT ![c] = @ + 1]
    /\ UNCHANGED <<kind, shape, pc, args, seedings, out, T, stage>>

\* first == last: std::generate ends, fillRnd returns and its locals, the
\* generator among them, are destroyed.
Return(c) ==
    /\ pc[c] = "running"
    /\ ~LoopContinues(it[c], Len(arr[c]))
    /\ pc' = [pc EXCEPT ![c] = "done"]
    /\ generator' = [generator EXCEPT ![generatorOf(c)] = NoGen]
    /\ UNCHANGED <<arr, kind, shape, args, it, written, drawn, seedings,
                   out, T, stage>>

(* ----------------------------- operator<< ----------------------------- *)

DigitChar(d) == <<"0", "1", "2", "3", "4", "5", "6", "7", "8", "9">>[d + 1]

RECURSIVE Digits(_)
Digits(n) ==
    IF n < 10 THEN <<DigitChar(n)>>
    ELSE Digits(n \div 10) \o <<DigitChar(n % 10)>>

\* out << x for a number x: a minus sign for a negative value, then the
\* decimal digits.
Format(x) == IF x < 0 THEN <<"-">> \o Digits(0 - x) ELSE Digits(x)

\* std::copy(first, last, std::ostream_iterator<T>(out, ", ")): every element
\* of the range is written and followed by the delimiter.
RECURSIVE CopyDelimited(_)
CopyDelimited(s) ==
    IF s = << >> THEN << >>
    ELSE Format(Head(s)) \o <<",", " ">> \o CopyDelimited(Tail(s))

operatorOutVectorTrailing(o, v) ==
    o \o <<"[">> \o CopyDelimited(v) \o <<"]">>

\* std::ostream& operator<<(std::ostream& out, const std::vector<T>& v)
operatorOutVector(o, v) ==
    IF v # << >>
    THEN o \o <<"[">> \o CopyDelimited(SubSeq(v, 1, Len(v) - 1))
           \o Format(v[Len(v)]) \o <<"]">>
    ELSE o

\* std::ostream& operator<<(std::ostream& out, const std::array<T, SIZE>& a)
operatorOutArray(o, a) ==
    IF a # << >>
    THEN o \o <<"[">> \o CopyDelimited(SubSeq(a, 1, Len(a) - 1))
           \o Format(a[Len(a)]) \o <<"]">>
    ELSE o

\* std::cout << v, for a std::vector the caller owns and no call is filling.
PrintVector(c) ==
    /\ pc[c] # "running"
    /\ shape[c] = "vector"
    /\ out' = operatorOutVector(<< >>, arr[c])
    /\ UNCHANGED <<fillVars, shape, T, stage>>

\* std::cout << a, for a std::array.
PrintArray(c) ==
    /\ pc[c] # "running"
    /\ shape[c] = "array"
    /\ out' = operatorOutArray(<< >>, arr[c])
    /\ UNCHANGED <<fillVars, shape, T, stage>>

(* ------------------ the capability restriction of fillRnd ------------- *)

\* What T::value_type names; "none" when T has no such member.
ValueTypes ==
    {"bool", "char", "int", "long", "unsigned", "float", "double",
     "string", "pointer", "struct"}

\* The types a call may pass: T::value_type, and whether T().begin() and
\* T().end() are well-formed.
Types ==
    [value_type : ValueTypes \cup {"none"}, begin : BOOLEAN, end : BOOLEAN]

\* std::is_arithmetic<typename T::value_type>::value
is_arithmetic(vt) ==
    vt \in {"bool", "char", "int", "long", "unsigned", "float", "double"}

\* std::is_integral<value_type>::value
is_integral(vt) == vt \in {"bool", "char", "int", "long", "unsigned"}

\* is_iterable<T>::value: the partial specialisation is chosen when both
\* decltype(std::declval<T>().begin()) and decltype(...end()) are well-formed.
is_iterable(t) == t.begin /\ t.end

\* std::enable_if<B, void>: a class that has the member type only when B.
enable_if(B) == [name |-> "enable_if", type |-> IF B THEN <<"void">> ELSE << >>]

\* The default of fillRnd's second template parameter: the class
\* std::enable_if<...> itself; its member type is not named.
DefaultArgument(t) ==
    enable_if(is_arithmetic(t.value_type) /\ is_iterable(t))

\* Template argument deduction for fillRnd(T&, typename T::value_type, ...):
\* substitution fails only where a named type does not exist, and the names
\* are T::value_type and the class DefaultArgument(T).
SubstitutionSucceeds(t) ==
    /\ t.value_type # "none"
    /\ DefaultArgument(t).name = "enable_if"

\* Instantiating the body: arr.begin() and arr.end() must exist; the
\* distribution is instantiated for value_type, which the library defines for
\* the standard integer types (uniform_int_distribution) and the floating-point
\* types (uniform_real_distribution) and leaves undefined otherwise.
BodyOutcomes(t) ==
    IF ~is_iterable(t) THEN {"error"}
    ELSE IF t.value_type \in {"int", "long", "unsigned", "float", "double"}
         THEN {"compiled"}
         ELSE {"error", "compiled"}

\* Overload resolution of the call expression fillRnd(arr, min, max).
OverloadResolution ==
    /\ stage = "call"
    /\ stage' = IF SubstitutionSucceeds(T) THEN "selected" ELSE "no_match"
    /\ UNCHANGED <<fillVars, shape, out, T>>

\* The selected specialisation's definition is instantiated.
InstantiateBody ==
    /\ stage = "selected"
    /\ stage' \in BodyOutcomes(T)
    /\ UNCHANGED <<fillVars, shape, out, T>>

(* --------------------------- specifications --------------------------- *)

InitFill ==
    /\ arr = [c \in Calls |-> << >>]
    /\ kind = [c \in Calls |-> "int"]
    /\ pc = [c \in Calls |-> "idle"]
    /\ args = [c \in Calls |-> NoArgs]
    /\ generator = [c \in Calls |-> NoGen]
    /\ it = [c \in Calls |-> 0]
    /\ written = [c \in Calls |-> {}]
    /\ drawn = [c \in Calls |-> << >>]
    /\ seedings = [c \in Calls |-> 0]
    /\ out = << >>

\* main: std::vector<int> v, std::array<int, 10> a; fillRnd is instantiated.
Init ==
    /\ InitFill
    /\ shape = [c \in Calls |-> IF c = 1 THEN "vector" ELSE "array"]
    /\ T = [value_type |-> "int", begin |-> TRUE, end |-> TRUE]
    /\ stage = "compiled"

\* Calls of fillRnd on different containers, their steps interleaved.
Next ==
    \E c \in Calls :
        \/ NewContainer(c)
        \/ Call(c)
        \/ Generate(c)
        \/ Return(c)

Spec == Init /\ [][Next]_vars

\* One container of either template, filled and written to a stream.
InitPrint ==
    /\ InitFill
    /\ shape \in [Calls -> Shapes]
    /\ T = [value_type |-> "int", begin |-> TRUE, end |-> TRUE]
    /\ stage = "compiled"

NextPrint ==
    \/ NewContainer(1)
    \/ Call(1)
    \/ Generate(1)
    \/ Return(1)
    \/ PrintVector(1)
    \/ PrintArray(1)

SpecPrint == InitPrint /\ [][NextPrint]_vars

\* The compiler meets a call of fillRnd with an argument of some type T.
InitInst ==
    /\ InitFill
    /\ shape = [c \in Calls |-> "vector"]
    /\ T \in Types
    /\ stage = "call"

NextInst ==
    \/ OverloadResolution
    \/ InstantiateBody

SpecInst == InitInst /\ [][NextInst]_vars

(* ------------------------------ properties ---------------------------- *)

\* The call of slot c has been entered (and may have returned).
InCall(c) == pc[c] \in {"running", "done"}

\* The sequence a call with these arguments produces when it runs alone, from
\* entry to return, on a container of n elements.
RECURSIVE RunAlone(_, _, _, _, _)
RunAlone(k, a, b, g, n) ==
    IF n = 0 THEN << >>
    ELSE LET d == disType(k, a, b, g)
         IN  <<d.val>> \o RunAlone(k, a, b, d.gen, n - 1)

\* Two calls with the same element type, bounds and container length.
SameRequest(c, d) ==
    /\ args[c].kind = args[d].kind
    /\ args[c].min = args[d].min
    /\ args[c].max = args[d].max
    /\ Len(arr[c]) = Len(arr[d])

\* The text of a bracketed list: "[", the elements in order with ", "
\* between neighbours, "]".
RECURSIVE Joined(_)
Joined(s) ==
    IF Len(s) = 0 THEN << >>
    ELSE IF Len(s) = 1 THEN Format(s[1])
    ELSE Format(s[1]) \o <<",", " ">> \o Joined(Tail(s))

Bracketed(s) == <<"[">> \o Joined(s) \o <<"]">>

\* C1: when fillRnd has returned (min <= max), every position of the sequence
\* was assigned during the call, each with a value drawn during the call: no
\* position was skipped and the call did not stop after a prefix.
FillOverwritesEveryPosition ==
    \A c \in Calls :
        (pc[c] = "done" /\ args[c].min <= args[c].max) =>
            /\ written[c] = 1..Len(arr[c])
            /\ \A i \in 1..Len(arr[c]) :
                  \E j \in 1..Len(drawn[c]) : arr[c][i] = drawn[c][j]

\* A call on a container of two elements has returned.
FilledTwoElements ==
    \E c \in Calls :
        pc[c] = "done" /\ Len(arr[c]) = 2 /\ written[c] = {1, 2}

\* C2: after a call with min <= max every element e of the sequence satisfies
\* min <= e <= max, whatever the seed, the length and the element kind.
RangeContainment ==
    \A c \in Calls :
        (pc[c] = "done" /\ args[c].min <= args[c].max) =>
            \A i \in 1..Len(arr[c]) :
                args[c].min <= arr[c][i] /\ arr[c][i] <= args[c].max

\* An integer call with min < max has returned and both bounds were drawn.
BothBoundsDrawn ==
    \E c \in Calls :
        /\ pc[c] = "done"
        /\ args[c].kind = "int"
        /\ args[c].min < args[c].max
        /\ \E i, j \in 1..Len(arr[c]) :
              arr[c][i] = args[c].min /\ arr[c][j] = args[c].max

\* C3: two returned calls with the same element type, seed, min, max and
\* length hold element-for-element the same sequence, whatever the containers
\* held before and whatever calls ran before or between them.
Determinism ==
    \A c, d \in Calls :
        (/\ pc[c] = "done"
         /\ pc[d] = "done"
         /\ SameRequest(c, d)
         /\ args[c].seed = args[d].seed) => arr[c] = arr[d]

\* Two calls with the same request and seed have returned, both having drawn
\* more than one distinct value.
TwoEqualRequestsReturned ==
    /\ pc[1] = "done"
    /\ pc[2] = "done"
    /\ SameRequest(1, 2)
    /\ args[1].seed = args[2].seed
    /\ Len(arr[1]) = 2
    /\ arr[1][1] # arr[1][2]

\* C4: under every interleaving of the steps of calls on different sequences,
\* what a call has written so far, and what it leaves at its return, is what
\* the same call writes when it runs alone.
NonInterference ==
    \A c \in Calls :
        InCall(c) =>
            LET alone == RunAlone(args[c].kind, args[c].min, args[c].max,
                                  SeedState(args[c].seed), Len(arr[c]))
            IN  /\ \A i \in written[c] : arr[c][i] = alone[i]
                /\ pc[c] = "done" => arr[c] = alone

\* Two calls with different seeds are both half-way through their sequences.
TwoCallsInterleaved ==
    /\ pc[1] = "running"
    /\ pc[2] = "running"
    /\ it[1] = 2
    /\ it[2] = 2
    /\ Len(arr[1]) = 2
    /\ Len(arr[2]) = 2
    /\ args[1].seed # args[2].seed

\* C5: no step of fillRnd, from its entry to its return, changes the number
\* of elements of the sequence.
LengthPreserved ==
    [][\A c \in Calls :
          pc'[c] \in {"running", "done"} => Len(arr'[c]) = Len(arr[c])]_vars

\* A call on a container of the greatest length has returned.
LongestContainerFilled ==
    \E c \in Calls :
        pc[c] = "done" /\ Len(arr[c]) = MaxLen /\ Len(drawn[c]) = MaxLen

\* C6: a call on an empty sequence writes no element, draws nothing, leaves
\* the sequence empty and can only return.
EmptyFillIsNoOp ==
    \A c \in Calls :
        (InCall(c) /\ Len(arr[c]) = 0 /\ args[c].min <= args[c].max) =>
            /\ arr[c] = << >>
            /\ written[c] = {}
            /\ drawn[c] = << >>
            /\ pc[c] = "running" => (ENABLED Return(c) /\ ~ENABLED Generate(c))

\* A call on an empty sequence has returned.
EmptyFillReturned ==
    \E c \in Calls : pc[c] = "done" /\ arr[c] = << >> /\ it[c] = 1

\* C7: a call without a seed argument leaves the same sequence as the call
\* with the same length, min and max and the seed 1337.
DefaultSeedIs1337 ==
    \A c, d \in Calls :
        (/\ pc[c] = "done"
         /\ pc[d] = "done"
         /\ SameRequest(c, d)
         /\ args[c].seedArg = Omitted
         /\ args[d].seedArg = <<1337>>) => arr[c] = arr[d]

\* A call without a seed and a call with the seed 1337 have returned, with
\* the same request on two elements.
DefaultAndExplicitReturned ==
    /\ pc[1] = "done"
    /\ pc[2] = "done"
    /\ SameRequest(1, 2)
    /\ args[1].seedArg = Omitted
    /\ args[2].seedArg = <<1337>>
    /\ args[1].min < args[1].max
    /\ Len(arr[1]) = 2

\* C8 as stated: for every length n >= 0, operator<< writes "[", the n
\* elements in order separated by ", ", and "]", and changes no element.
PrintsBracketedList ==
    [][\A c \in Calls :
          (PrintVector(c) \/ PrintArray(c)) =>
              (out' = Bracketed(arr[c]) /\ arr' = arr)]_vars

\* C8, amended: for every length n >= 1, operator<< writes "[", the n
\* elements in order separated by ", ", and "]"; for an empty sequence it
\* writes nothing; it changes no element.
PrintsBracketedListUnlessEmpty ==
    [][\A c \in Calls :
          (PrintVector(c) \/ PrintArray(c)) =>
              /\ out' = IF arr[c] = << >> THEN << >> ELSE Bracketed(arr[c])
              /\ arr' = arr]_vars

\* A filled container of two elements has been written to the stream.
TwoElementsPrinted ==
    /\ pc[1] = "done"
    /\ Len(arr[1]) = 2
    /\ Len(out) >= 5
    /\ out = Bracketed(arr[1])

\* C9: the capability restriction rejects, at overload resolution, every type
\* that is not iterable or whose value_type is not arithmetic.
RestrictionRejectsOtherTypes ==
    (stage # "call" /\ ~(is_iterable(T) /\ is_arithmetic(T.value_type)))
        => stage = "no_match"

\* C10: a call constructs one generator, seeded with the given seed before the
\* first draw and never again; it draws once per element, in element order:
\* element i holds the i-th value drawn, and n elements take n draws.
OneDrawPerElementInOrder ==
    \A c \in Calls :
        InCall(c) =>
            /\ seedings[c] = 1
            /\ Len(drawn[c]) = it[c] - 1
            /\ \A i \in 1..Len(drawn[c]) : arr[c][i] = drawn[c][i]
            /\ (pc[c] = "running" /\ it[c] = 1) =>
                   generator[c] = SeedState(args[c].seed)
            /\ pc[c] = "done" => Len(drawn[c]) = Len(arr[c])

\* A call has returned after two draws of different values.
TwoDrawsInOrder ==
    \E c \in Calls :
        /\ pc[c] = "done"
        /\ Len(drawn[c]) = 2
        /\ drawn[c][1] # drawn[c][2]
        /\ arr[c] = drawn[c]

====
